---- MODULE Spec2Model ----
(***************************************************************************)
(* Model of the arrivals-report parser of czechinn_nametags                *)
(* (hotel_nametag_generator.py, class PDFParser).                          *)
(*                                                                         *)
(* Python strings are modelled as sequences of one-character strings, so   *)
(* that splitting, stripping, searching and the two regular expressions    *)
(* are computed character by character as the code computes them.          *)
(***************************************************************************)
EXTENDS Integers, Sequences, FiniteSets, TLC

\* ------------------------------------------------------------------------
\* Characters and generic string helpers (Python str methods)
\* ------------------------------------------------------------------------

\* '0123456789'
DigitChars == <<"0","1","2","3","4","5","6","7","8","9">>
\* 'abcdefghijklmnopqrstuvwxyz'
LowerChars == <<"a","b","c","d","e","f","g","h","i","j","k","l","m","n","o","p","q","r","s","t","u","v","w","x","y","z">>
\* 'ABCDEFGHIJKLMNOPQRSTUVWXYZ'
UpperChars == <<"A","B","C","D","E","F","G","H","I","J","K","L","M","N","O","P","Q","R","S","T","U","V","W","X","Y","Z">>

\* regex \d
Digit == {DigitChars[k] : k \in DOMAIN DigitChars}
\* regex [A-Z]
UpperAZ == {UpperChars[k] : k \in DOMAIN UpperChars}
\* regex \s, and the characters str.strip() / str.split() treat as blank
WS == {" ", "\t"}

\* the empty string ''
Empty == << >>

\* The index of character c in table tbl, 0 when absent.
IndexIn(tbl, c) ==
    IF \E k \in DOMAIN tbl : tbl[k] = c
    THEN CHOOSE k \in DOMAIN tbl : tbl[k] = c
    ELSE 0

\* str.upper(), one character
UpperChar(c) ==
    LET k == IndexIn(LowerChars, c)
    IN IF k = 0 THEN c ELSE UpperChars[k]

\* str.upper()
upper(s) == [k \in DOMAIN s |-> UpperChar(s[k])]

\* s[a:b] of Python with 1-based inclusive bounds a..b
Slice(s, a, b) == SubSeq(s, a, b)

\* str.find(sub[0], from): 1-based index of the first c at or after position
\* `from`, 0 when there is none (Python's -1)
RECURSIVE find(_, _, _)
find(s, c, from) ==
    IF from > Len(s) THEN 0
    ELSE IF s[from] = c THEN from
    ELSE find(s, c, from + 1)

\* str.rfind(c, 0, before): 1-based index of the last c strictly before the
\* 1-based position `before`, 0 when there is none
RECURSIVE rfind(_, _, _)
rfind(s, c, before) ==
    IF before <= 1 THEN 0
    ELSE IF s[before - 1] = c THEN before - 1
    ELSE rfind(s, c, before - 1)

\* c in s
HasChar(s, c) == find(s, c, 1) # 0

\* s.startswith(p)
startswith(s, p) ==
    /\ Len(p) <= Len(s)
    /\ \A k \in 1..Len(p) : s[k] = p[k]

\* sub in s, somewhere at or after position `from`
ContainsFrom(s, sub, from) ==
    \E j \in from..(Len(s) - Len(sub) + 1) :
        \A k \in 1..Len(sub) : s[j + k - 1] = sub[k]

Contains(s, sub) == ContainsFrom(s, sub, 1)

\* str.lstrip()
RECURSIVE lstrip(_)
lstrip(s) ==
    IF s # Empty /\ Head(s) \in WS THEN lstrip(Tail(s)) ELSE s

\* str.rstrip()
RECURSIVE rstrip(_)
rstrip(s) ==
    IF s # Empty /\ s[Len(s)] \in WS THEN rstrip(Slice(s, 1, Len(s) - 1)) ELSE s

\* str.strip()
strip(s) == rstrip(lstrip(s))

\* str.isdigit()
isdigit(s) == s # Empty /\ \A k \in DOMAIN s : s[k] \in Digit

\* The position after the run of non-blank characters starting at j.
TokenEnd(s, j) ==
    IF j > Len(s) THEN j
    ELSE CHOOSE e \in j..(Len(s) + 1) :
            /\ e > Len(s) \/ s[e] \in WS
            /\ \A m \in j..(e - 1) : s[m] \notin WS

\* str.split(): the maximal runs of non-blank characters, left to right
RECURSIVE SplitFrom(_, _)
SplitFrom(s, j) ==
    IF j > Len(s) THEN << >>
    ELSE IF s[j] \in WS THEN SplitFrom(s, j + 1)
    ELSE LET e == TokenEnd(s, j)
         IN <<Slice(s, j, e - 1)>> \o SplitFrom(s, e)

split(s) == SplitFrom(s, 1)

\* str.split(sep)[0]: the part before the first sep, the whole of s if none
SplitFirst(s, sep) ==
    LET k == find(s, sep, 1)
    IN IF k = 0 THEN s ELSE Slice(s, 1, k - 1)

\* The value of a string of decimal digits.
RECURSIVE DigitsValue(_)
DigitsValue(s) ==
    IF s = Empty THEN 0
    ELSE 10 * DigitsValue(Slice(s, 1, Len(s) - 1))
         + (IndexIn(DigitChars, s[Len(s)]) - 1)

\* s without its leading zeros
Significant(s) ==
    LET nz == CHOOSE e \in 1..(Len(s) + 1) :
                 /\ e > Len(s) \/ s[e] # "0"
                 /\ \A m \in 1..(e - 1) : s[m] = "0"
    IN Slice(s, nz, Len(s))

\* int(digits), where it returns
int(s) == DigitsValue(Significant(s))

\* The decimal digits of n, without padding.
RECURSIVE Decimal(_)
Decimal(n) ==
    IF n < 10 THEN <<DigitChars[n + 1]>>
    ELSE Decimal(n \div 10) \o <<DigitChars[(n % 10) + 1]>>

\* left-pad s with zeros to width w
RECURSIVE ZeroPad(_, _)
ZeroPad(s, w) == IF Len(s) >= w THEN s ELSE ZeroPad(<<"0">> \o s, w)

\* Format03d keeping only the last three digits of n
Format03d_wrap(n) == ZeroPad(Decimal(n % 1000), 3)

\* f"{n:03d}" for n >= 0
Format03d(n) == ZeroPad(Decimal(n), 3)

\* ------------------------------------------------------------------------
\* PDFParser: regular expressions and field extractors
\* ------------------------------------------------------------------------

\* The position after the maximal run of digits starting at j (regex \d+,
\* greedy; giving back digits never helps the patterns below, because the
\* character after a shorter run is a digit).
DigitsEnd(s, j) ==
    IF j > Len(s) THEN j
    ELSE CHOOSE e \in j..(Len(s) + 1) :
            /\ e > Len(s) \/ s[e] \notin Digit
            /\ \A m \in j..(e - 1) : s[m] \in Digit

NoMatch == [ok |-> FALSE]

\* \((\d+)\) at position c; g1 is the text of group 1 already matched
CountPart(s, c, g1) ==
    IF c <= Len(s) /\ s[c] = "("
    THEN LET d == DigitsEnd(s, c + 1)
         IN IF d > c + 1 /\ d <= Len(s) /\ s[d] = ")"
            THEN [ok |-> TRUE, room |-> g1, count |-> Slice(s, c + 1, d - 1),
                  end |-> d + 1]
            ELSE NoMatch
    ELSE NoMatch

\* first alternative of group 1, -?\d+(?:-[A-Z])?, then the count
RoomAlt1(s, j) ==
    LET a == IF j <= Len(s) /\ s[j] = "-" THEN j + 1 ELSE j
        b == DigitsEnd(s, a)
        c == IF b + 1 <= Len(s) /\ s[b] = "-" /\ s[b + 1] \in UpperAZ
             THEN b + 2 ELSE b
    IN IF b = a THEN NoMatch ELSE CountPart(s, c, Slice(s, j, c - 1))

\* second alternative of group 1, \d+\s[A-Z], then the count
RoomAlt2(s, j) ==
    LET b == DigitsEnd(s, j)
    IN IF b > j /\ b + 1 <= Len(s) /\ s[b] \in WS /\ s[b + 1] \in UpperAZ
       THEN CountPart(s, b + 2, Slice(s, j, b + 1))
       ELSE NoMatch

\* group 1 and the count, with the room token starting at j
RoomTokenAt(s, j) ==
    IF RoomAlt1(s, j).ok THEN RoomAlt1(s, j) ELSE RoomAlt2(s, j)

\* ROOM_PATTERN tried at position p: (?:^|\s) then the room token
ROOM_PATTERN(s, p) ==
    IF p = 1 /\ RoomTokenAt(s, 1).ok THEN RoomTokenAt(s, 1)
    ELSE IF p <= Len(s) /\ s[p] \in WS THEN RoomTokenAt(s, p + 1)
    ELSE NoMatch

\* ROOM_PATTERN.findall(s): the non-overlapping matches, left to right
RECURSIVE findall(_, _)
findall(s, p) ==
    IF p > Len(s) THEN << >>
    ELSE LET m == ROOM_PATTERN(s, p)
         IN IF m.ok THEN <<m>> \o findall(s, m.end)
            ELSE findall(s, p + 1)

\* PDFParser.parse_rooms
parse_rooms(room_str) ==
    LET matches == findall(room_str, 1)
    IN [k \in DOMAIN matches |-> <<strip(matches[k].room), int(matches[k].count)>>]

\* DATE_PATTERN matched at position j: (\d{2})\.\d{2}\.\d{2}
DATE_PATTERN(s, j) ==
    /\ j + 7 <= Len(s)
    /\ \A k \in {0, 1, 3, 4, 6, 7} : s[j + k] \in Digit
    /\ s[j + 2] = "." /\ s[j + 5] = "."

\* DATE_PATTERN.search(s): the position of the leftmost match, 0 if none
RECURSIVE DateSearch(_, _)
DateSearch(s, j) ==
    IF j > Len(s) THEN 0
    ELSE IF DATE_PATTERN(s, j) THEN j
    ELSE DateSearch(s, j + 1)

\* parse_date returning the whole DD.MM.YY match instead of group 1
parse_date_whole(date_str) ==
    LET j == DateSearch(date_str, 1)
    IN IF j = 0 THEN Empty ELSE Slice(date_str, j, j + 7)

\* PDFParser.parse_date
parse_date(date_str) ==
    LET j == DateSearch(date_str, 1)
    IN IF j = 0 THEN Empty ELSE Slice(date_str, j, j + 1)

\* [p for p in parts if self.DATE_PATTERN.match(p)]
DateTokens(parts) == SelectSeq(parts, LAMBDA p : DATE_PATTERN(p, 1))

\* 'O' / 'X'
MarkerO == <<"O">>
MarkerX == <<"X">>

\* PDFParser.is_continuation_line
is_continuation_line(line0) ==
    LET line == strip(line0)
        parts == split(line)
        has_rooms == findall(line, 1) # << >>
        dates == DateTokens(parts)
    IN IF line = Empty THEN FALSE
       ELSE IF has_rooms /\ Len(dates) = 0 THEN TRUE
       ELSE IF line \in {MarkerO, MarkerX} THEN TRUE
       ELSE FALSE

\* Python's None
None == [none |-> TRUE]

\* parse_data_line rejecting a line that has fewer than two date tokens
parse_data_line_strict(line) ==
    LET parts == split(line)
        dates_found == DateTokens(parts)
    IN IF Len(parts) < 5 \/ Len(dates_found) < 2 THEN None
       ELSE [matchcode |-> parts[1],
             rooms     |-> parse_rooms(line),
             arrival   |-> parse_date(dates_found[1]),
             departure |-> parse_date(dates_found[2])]

\* parse_data_line taking the departure from the last date token
parse_data_line_lastdate(line) ==
    LET parts == split(line)
        dates_found == DateTokens(parts)
    IN IF Len(parts) < 5 THEN None
       ELSE [matchcode |-> parts[1],
             rooms     |-> parse_rooms(line),
             arrival   |-> IF Len(dates_found) >= 2
                           THEN parse_date(dates_found[1]) ELSE Empty,
             departure |-> IF Len(dates_found) >= 2
                           THEN parse_date(dates_found[Len(dates_found)])
                           ELSE Empty]

\* parse_data_line returning None below 4 tokens instead of 5
parse_data_line_four(line) ==
    LET parts == split(line)
        dates_found == DateTokens(parts)
    IN IF Len(parts) < 4 THEN None
       ELSE [matchcode |-> parts[1],
             rooms     |-> parse_rooms(line),
             arrival   |-> IF Len(dates_found) >= 2
                           THEN parse_date(dates_found[1]) ELSE Empty,
             departure |-> IF Len(dates_found) >= 2
                           THEN parse_date(dates_found[2]) ELSE Empty]

\* PDFParser.parse_data_line
parse_data_line(line) ==
    LET parts == split(line)
        dates_found == DateTokens(parts)
    IN IF Len(parts) < 5 THEN None
       ELSE [matchcode |-> parts[1],
             rooms     |-> parse_rooms(line),
             arrival   |-> IF Len(dates_found) >= 2
                           THEN parse_date(dates_found[1]) ELSE Empty,
             departure |-> IF Len(dates_found) >= 2
                           THEN parse_date(dates_found[2]) ELSE Empty]

\* parse_matchcode testing for the slash before the underscore
parse_matchcode_slash_first(matchcode) ==
    IF HasChar(matchcode, "/") THEN upper(SplitFirst(matchcode, "/"))
    ELSE IF HasChar(matchcode, "_") THEN upper(SplitFirst(matchcode, "_"))
    ELSE upper(matchcode)

\* PDFParser.parse_matchcode
parse_matchcode(matchcode) ==
    IF HasChar(matchcode, "_") THEN upper(SplitFirst(matchcode, "_"))
    ELSE IF HasChar(matchcode, "/") THEN upper(SplitFirst(matchcode, "/"))
    ELSE upper(matchcode)

\* extract_booking_code taking the last underscore of the whole token
extract_booking_code_any_underscore(matchcode) ==
    IF ~HasChar(matchcode, "/") THEN Empty
    ELSE LET last_underscore == rfind(matchcode, "_", Len(matchcode) + 1)
         IN IF last_underscore # 0
            THEN strip(Slice(matchcode, last_underscore + 1, Len(matchcode)))
            ELSE strip(matchcode)

\* PDFParser.extract_booking_code
extract_booking_code(matchcode) ==
    IF ~HasChar(matchcode, "/") THEN Empty
    ELSE LET slash_pos == find(matchcode, "/", 1)
             last_underscore == rfind(matchcode, "_", slash_pos)
         IN IF last_underscore # 0
            THEN strip(Slice(matchcode, last_underscore + 1, Len(matchcode)))
            ELSE strip(matchcode)

\* The header, page-marker and summary lines process() skips.
\* 'Matchcode', 'Arrivals', 'Seite', 'EHC/', 'Room Arrival'
StrMatchcode == <<"M","a","t","c","h","c","o","d","e">>
StrArrivals == <<"A","r","r","i","v","a","l","s">>
StrSeite == <<"S","e","i","t","e">>
StrEHC == <<"E","H","C","/">>
StrRoomArrival == <<"R","o","o","m"," ","A","r","r","i","v","a","l">>

\* IsSkipped without the test `'Arrivals' in line`
IsSkipped_noarrivals(line) ==
    \/ line = Empty
    \/ Contains(line, StrMatchcode)
    \/ Contains(line, StrSeite)
    \/ startswith(line, StrEHC)
    \/ startswith(line, StrRoomArrival)
    \/ isdigit(line)

\* The three skip tests at the head of the loop body of process(), on the
\* stripped line.
IsSkipped(line) ==
    \/ line = Empty
    \/ Contains(line, StrMatchcode)
    \/ Contains(line, StrArrivals)
    \/ Contains(line, StrSeite)
    \/ startswith(line, StrEHC)
    \/ startswith(line, StrRoomArrival)
    \/ isdigit(line)

\* sum(count for _, count in rooms)
RECURSIVE SumCounts(_)
SumCounts(rooms) ==
    IF rooms = << >> THEN 0 ELSE rooms[1][2] + SumCounts(Tail(rooms))

\* The order in which the nested loops of _create_guest_records visit the
\* rooms: room index r repeated rooms[r][2] times, in room order.
RECURSIVE Repeat(_, _)
Repeat(x, n) == IF n <= 0 THEN << >> ELSE <<x>> \o Repeat(x, n - 1)

RECURSIVE SlotsFrom(_, _)
SlotsFrom(rooms, r) ==
    IF r > Len(rooms) THEN << >>
    ELSE Repeat(r, rooms[r][2]) \o SlotsFrom(rooms, r + 1)

Slots(rooms) == SlotsFrom(rooms, 1)

\* create_guest_records with number_of_guests the total of the entry
create_guest_records_total(entry, start_id) ==
    LET last_name == parse_matchcode(entry.matchcode)
        booking_code == extract_booking_code(entry.matchcode)
        slots == Slots(entry.rooms)
    IN [k \in DOMAIN slots |->
          [id               |-> Format03d(start_id + (k - 1)),
           last_name        |-> last_name,
           room_number      |-> entry.rooms[slots[k]][1],
           number_of_guests |-> SumCounts(entry.rooms),
           arrival_day      |-> entry.arrival,
           departure_day    |-> entry.departure,
           matchcode        |-> booking_code]]

\* create_guest_records without `current_id += 1`
create_guest_records_noinc(entry, start_id) ==
    LET last_name == parse_matchcode(entry.matchcode)
        booking_code == extract_booking_code(entry.matchcode)
        slots == Slots(entry.rooms)
    IN [k \in DOMAIN slots |->
          [id               |-> Format03d(start_id),
           last_name        |-> last_name,
           room_number      |-> entry.rooms[slots[k]][1],
           number_of_guests |-> entry.rooms[slots[k]][2],
           arrival_day      |-> entry.arrival,
           departure_day    |-> entry.departure,
           matchcode        |-> booking_code]]

\* PDFParser._create_guest_records: the GuestRecords appended for `entry`
create_guest_records(entry, start_id) ==
    LET last_name == parse_matchcode(entry.matchcode)
        booking_code == extract_booking_code(entry.matchcode)
        slots == Slots(entry.rooms)
    IN [k \in DOMAIN slots |->
          [id               |-> Format03d(start_id + (k - 1)),
           last_name        |-> last_name,
           room_number      |-> entry.rooms[slots[k]][1],
           number_of_guests |-> entry.rooms[slots[k]][2],
           arrival_day      |-> entry.arrival,
           departure_day    |-> entry.departure,
           matchcode        |-> booking_code]]

\* ------------------------------------------------------------------------
\* Inputs
\* ------------------------------------------------------------------------

\* 'SMITH_JOHN/1234 101(2) 102(1) 15.03.24 18.03.24'
LineSmith == <<"S","M","I","T","H","_","J","O","H","N","/","1","2","3","4"," ","1","0","1","(","2",")"," ","1","0","2","(","1",")"," ","1","5",".","0","3",".","2","4"," ","1","8",".","0","3",".","2","4">>
\* 'LI/7 -1(1) a b 02.01.24'      five tokens, one room, one date token
LineOneDate == <<"L","I","/","7"," ","-","1","(","1",")"," ","a"," ","b"," ","0","2",".","0","1",".","2","4">>
\* 'ng_a/9 7(1) a b c'            five tokens, one room, no date token
LineNoDate == <<"n","g","_","a","/","9"," ","7","(","1",")"," ","a"," ","b"," ","c">>
\* '210 T(2)'                     rooms only
LineRooms == <<"2","1","0"," ","T","(","2",")">>
\* 'O'                            status marker
LineMarker == <<"O">>
\* '42'                           page subtotal
LineDigits == <<"4","2">>
\* 'X/1 9(1) 01.01.24 02.01.24'   four tokens, one room, two date tokens
LineFourTokens == <<"X","/","1"," ","9","(","1",")"," ","0","1",".","0","1",".","2","4"," ","0","2",".","0","1",".","2","4">>

\* The text lines a report may hold.
LinePool ==
    {LineSmith, LineOneDate, LineNoDate, LineRooms, LineMarker, LineDigits,
     LineFourTokens}

\* The longest report, in lines.
MaxLines == 3

\* All sequences over S of length at most n.
SeqsUpTo(S, n) == UNION {[1..k -> S] : k \in 0..n}

\* Characters of the identity tokens tried: a lower-case and an upper-case
\* letter, the two separators, and a blank.
TokenChars == {"a", "B", "_", "/", " "}

\* The longest identity token tried exhaustively.
MaxTokLen == 5

\* 'AHMAD_WASEEM_XXD/2521/1'
TokAhmad == <<"A","H","M","A","D","_","W","A","S","E","E","M","_","X","X","D","/","2","5","2","1","/","1">>
\* 'SMITH_JOHN/1234'
TokSmith == <<"S","M","I","T","H","_","J","O","H","N","/","1","2","3","4">>

Tokens == SeqsUpTo(TokenChars, MaxTokLen) \cup {TokAhmad, TokSmith}

\* ------------------------------------------------------------------------
\* State
\* ------------------------------------------------------------------------

VARIABLES
    pdf,            \* the text lines of the PDF at self.pdf_path, all pages
    raw_lines,      \* self.raw_lines
    guest_records,  \* self.guest_records
    current_entry,  \* process(): current_entry (None or a parsed dict)
    guest_id,       \* process(): guest_id
    i,              \* process(): 1-based position of the for loop in raw_lines
    pc,             \* "new" (constructed), "loop" (inside process), "done"
    \* history of the passes, for stating the properties:
    entry_line,     \* the position of the line current_entry was parsed from
    room_line,      \* per room of current_entry, the position of its line
    opened,         \* positions of the lines that were installed as entries
    flushes,        \* one record per call of _create_guest_records
    rec_src,        \* per GuestRecord: its call, its room, that room's line
    returned,       \* the list each call of process() returned, in order
    \* identity decomposition on its own:
    tok,            \* a raw identity token
    tok_out,        \* None, or its (last_name, booking_code)
    \* id formatting on its own:
    counter,        \* a value of current_id
    id_out,         \* None, or [id |-> f"{current_id:03d}"]
    \* the web application (streamlit_app.py):
    session_state,  \* st.session_state of the browser session, a dict
    disk,           \* the temporary files on disk, each with its session
    session,        \* "none", "live", or "closed" (browser tab closed)
    sess,           \* how many sessions were ended with the button
    final_guests    \* None, or the list handed to NametageGenerator

identityVars == <<tok, tok_out>>

formatVars == <<counter, id_out>>

webVars == <<session_state, disk, session, sess, final_guests>>

\* everything outside the parser object
sideVars == <<identityVars, formatVars, webVars>>

parserVars == <<pdf, raw_lines, guest_records, current_entry, guest_id, i, pc,
                entry_line, room_line, opened, flushes, rec_src, returned>>

vars == <<parserVars, sideVars>>

\* PDFParser.__init__, before any call of process()
Constructed ==
    /\ raw_lines = << >>
    /\ guest_records = << >>
    /\ current_entry = None
    /\ guest_id = 0
    /\ i = 0
    /\ pc = "new"
    /\ entry_line = 0
    /\ room_line = << >>
    /\ opened = << >>
    /\ flushes = << >>
    /\ rec_src = << >>
    /\ returned = << >>

\* no identity token under decomposition
IdleIdentity == tok = Empty /\ tok_out = None

\* no id under formatting
IdleFormat == counter = 0 /\ id_out = None

\* no browser session
IdleWeb ==
    /\ session_state = << >>
    /\ disk = {}
    /\ session = "none"
    /\ sess = 0
    /\ final_guests = None

Init ==
    /\ pdf \in SeqsUpTo(LinePool, MaxLines)
    /\ Constructed
    /\ IdleIdentity
    /\ IdleFormat
    /\ IdleWeb

\* ------------------------------------------------------------------------
\* process(): one action per step
\* ------------------------------------------------------------------------

\* process_start with the id counter starting at 1
process_start_from1 ==
    /\ pc = "new"
    /\ raw_lines' = raw_lines \o pdf
    /\ current_entry' = None
    /\ guest_id' = 1
    /\ i' = 1
    /\ pc' = "loop"
    /\ UNCHANGED <<pdf, guest_records, entry_line, room_line, opened, flushes,
                   rec_src, returned, sideVars>>

\* extract_text() and the initialisation of the locals
process_start ==
    /\ pc = "new"
    /\ raw_lines' = raw_lines \o pdf
    /\ current_entry' = None
    /\ guest_id' = 0
    /\ i' = 1
    /\ pc' = "loop"
    /\ UNCHANGED <<pdf, guest_records, entry_line, room_line, opened, flushes,
                   rec_src, returned, sideVars>>

\* line = line.strip() for the line the loop is at
CurLine == strip(raw_lines[i])

InLoop == pc = "loop" /\ i <= Len(raw_lines)

\* HasRooms asking for at least two rooms
HasRooms_multi(entry) == entry # None /\ Len(entry.rooms) > 1

\* `current_entry and current_entry['rooms']`
HasRooms(entry) == entry # None /\ entry.rooms # << >>

\* `self.is_continuation_line(line) and current_entry`
TakesContinuation(line, entry) == is_continuation_line(line) /\ entry # None

\* Accepted without the test `parsed['rooms']`
Accepted_norooms(parsed) == parsed # None /\ parsed.matchcode # Empty

\* `parsed and parsed['matchcode'] and parsed['rooms']`
Accepted(parsed) ==
    parsed # None /\ parsed.matchcode # Empty /\ parsed.rooms # << >>

\* AdvanceId counting the rooms instead of their occupants
AdvanceId_rooms(gid, entry) == gid + Len(entry.rooms)

\* `guest_id += sum(count for _, count in current_entry['rooms'])`
AdvanceId(gid, entry) == gid + SumCounts(entry.rooms)

\* the three `continue`s for header, page-marker and summary lines
SkipLine ==
    /\ InLoop
    /\ IsSkipped(CurLine)
    /\ i' = i + 1
    /\ UNCHANGED <<pdf, raw_lines, guest_records, current_entry, guest_id, pc,
                   entry_line, room_line, opened, flushes, rec_src, returned,
                   sideVars>>

\* ContinuationLine taking the line's first token as the entry's identity
ContinuationLine_identity ==
    /\ InLoop
    /\ ~IsSkipped(CurLine)
    /\ TakesContinuation(CurLine, current_entry)
    /\ LET additional_rooms == parse_rooms(CurLine)
       IN /\ current_entry' =
                [current_entry EXCEPT !.rooms = @ \o additional_rooms,
                                      !.matchcode = split(CurLine)[1]]
          /\ room_line' = room_line \o [k \in DOMAIN additional_rooms |-> i]
    /\ i' = i + 1
    /\ UNCHANGED <<pdf, raw_lines, guest_records, guest_id, pc, entry_line,
                   opened, flushes, rec_src, returned, sideVars>>

\* ContinuationLine putting the line's rooms before those of the entry
ContinuationLine_prepend ==
    /\ InLoop
    /\ ~IsSkipped(CurLine)
    /\ TakesContinuation(CurLine, current_entry)
    /\ LET additional_rooms == parse_rooms(CurLine)
       IN /\ current_entry' =
                [current_entry EXCEPT !.rooms = additional_rooms \o @]
          /\ room_line' = [k \in DOMAIN additional_rooms |-> i] \o room_line
    /\ i' = i + 1
    /\ UNCHANGED <<pdf, raw_lines, guest_records, guest_id, pc, entry_line,
                   opened, flushes, rec_src, returned, sideVars>>

\* the continuation branch: extend the rooms of the current entry
ContinuationLine ==
    /\ InLoop
    /\ ~IsSkipped(CurLine)
    /\ TakesContinuation(CurLine, current_entry)
    /\ LET additional_rooms == parse_rooms(CurLine)
       IN /\ current_entry' =
                [current_entry EXCEPT !.rooms = @ \o additional_rooms]
          /\ room_line' = room_line \o [k \in DOMAIN additional_rooms |-> i]
    /\ i' = i + 1
    /\ UNCHANGED <<pdf, raw_lines, guest_records, guest_id, pc, entry_line,
                   opened, flushes, rec_src, returned, sideVars>>

\* What one call _create_guest_records(current_entry, guest_id) made at loop
\* position `at` adds to the history.
FlushRecord(at) ==
    [entry_line |-> entry_line, at |-> at, start_id |-> guest_id,
     pos |-> Len(guest_records), entry |-> current_entry]

FlushSources ==
    LET slots == Slots(current_entry.rooms)
    IN [k \in DOMAIN slots |->
          [flush |-> Len(flushes) + 1, room |-> slots[k],
           line |-> room_line[slots[k]]]]

\* an accepted main data line: save the previous entry, install the new one
PrimaryLine ==
    /\ InLoop
    /\ ~IsSkipped(CurLine)
    /\ ~TakesContinuation(CurLine, current_entry)
    /\ LET parsed == parse_data_line(CurLine)
       IN /\ Accepted(parsed)
          /\ IF HasRooms(current_entry)
             THEN /\ guest_records' = guest_records \o
                        create_guest_records(current_entry, guest_id)
                  /\ guest_id' = AdvanceId(guest_id, current_entry)
                  /\ flushes' = Append(flushes, FlushRecord(i))
                  /\ rec_src' = rec_src \o FlushSources
             ELSE UNCHANGED <<guest_records, guest_id, flushes, rec_src>>
          /\ current_entry' = parsed
          /\ entry_line' = i
          /\ room_line' = [k \in DOMAIN parsed.rooms |-> i]
          /\ opened' = Append(opened, i)
    /\ i' = i + 1
    /\ UNCHANGED <<pdf, raw_lines, pc, returned, sideVars>>

\* a line that is neither skipped, nor a continuation, nor accepted
DropLine ==
    /\ InLoop
    /\ ~IsSkipped(CurLine)
    /\ ~TakesContinuation(CurLine, current_entry)
    /\ ~Accepted(parse_data_line(CurLine))
    /\ i' = i + 1
    /\ UNCHANGED <<pdf, raw_lines, guest_records, current_entry, guest_id, pc,
                   entry_line, room_line, opened, flushes, rec_src, returned,
                   sideVars>>

\* EndOfInput forgetting the last entry
EndOfInput_noflush ==
    /\ pc = "loop"
    /\ i > Len(raw_lines)
    /\ pc' = "done"
    /\ returned' = Append(returned, guest_records)
    /\ UNCHANGED <<pdf, raw_lines, guest_records, current_entry, guest_id, i,
                   entry_line, room_line, opened, flushes, rec_src, sideVars>>

\* after the loop: the last entry, and return self.guest_records
EndOfInput ==
    /\ pc = "loop"
    /\ i > Len(raw_lines)
    /\ IF HasRooms(current_entry)
       THEN /\ guest_records' = guest_records \o
                  create_guest_records(current_entry, guest_id)
            /\ flushes' = Append(flushes, FlushRecord(i))
            /\ rec_src' = rec_src \o FlushSources
       ELSE UNCHANGED <<guest_records, flushes, rec_src>>
    /\ pc' = "done"
    /\ returned' = Append(returned, guest_records')
    /\ UNCHANGED <<pdf, raw_lines, current_entry, guest_id, i, entry_line,
                   room_line, opened, sideVars>>

Next ==
    \/ process_start
    \/ SkipLine
    \/ ContinuationLine
    \/ PrimaryLine
    \/ DropLine
    \/ EndOfInput

Spec == Init /\ [][Next]_vars

\* ------------------------------------------------------------------------
\* Identity decomposition as a function of the token alone
\* ------------------------------------------------------------------------

InitIdentity ==
    /\ pdf = << >>
    /\ Constructed
    /\ tok \in Tokens
    /\ tok_out = None
    /\ IdleFormat
    /\ IdleWeb

\* the first two statements of _create_guest_records, on entry['matchcode']
Decompose ==
    /\ tok_out = None
    /\ tok_out' = [last_name |-> parse_matchcode(tok),
                   booking_code |-> extract_booking_code(tok)]
    /\ UNCHANGED <<parserVars, tok, formatVars, webVars>>

NextIdentity == Decompose

SpecIdentity == InitIdentity /\ [][NextIdentity]_vars

\* ------------------------------------------------------------------------
\* Helpers for stating the properties
\* ------------------------------------------------------------------------

\* The occupants of the rooms before room r of a room sequence.
OccupantsBefore(rooms, r) == SumCounts(SubSeq(rooms, 1, r - 1))

\* The integer an id string denotes.
IdValue(rec) == int(rec.id)

\* The stripped text of line n of the input.
LineAt(n) == strip(raw_lines[n])

\* The positions in `opened` that lie before line n.
OpenedBefore(n) == {opened[k] : k \in {h \in DOMAIN opened : opened[h] < n}}

SetMax(S) == CHOOSE x \in S : \A y \in S : y <= x
SetMin(S) == CHOOSE x \in S : \A y \in S : x <= y

\* ------------------------------------------------------------------------
\* C1
\* ------------------------------------------------------------------------

\* C1: every call of _create_guest_records during a pass, for an entry whose
\* N rooms hold M occupants in all, appends exactly M GuestRecords; the
\* integer values of their ids are M consecutive increasing integers; the
\* records come room by room in room order, one per occupant.
C1_FlushExpandsToOccupants ==
    \A j \in DOMAIN flushes :
        LET f == flushes[j]
            rooms == f.entry.rooms
            M == SumCounts(rooms)
            after == IF j < Len(flushes) THEN flushes[j + 1].pos
                     ELSE Len(guest_records)
        IN /\ after = f.pos + M
           /\ \A k \in 1..M :
                 IdValue(guest_records[f.pos + k]) =
                    IdValue(guest_records[f.pos + 1]) + (k - 1)
           /\ \A r \in DOMAIN rooms : \A o \in 1..rooms[r][2] :
                 guest_records[f.pos + OccupantsBefore(rooms, r) + o].room_number
                    = rooms[r][1]

\* An entry with three rooms (one from a continuation line) and five
\* occupants has been flushed.
C1_Witness ==
    /\ pc = "done"
    /\ \E j \in DOMAIN flushes :
          /\ Len(flushes[j].entry.rooms) = 3
          /\ SumCounts(flushes[j].entry.rooms) = 5
          /\ Len(guest_records) >= flushes[j].pos + 5

\* ------------------------------------------------------------------------
\* C2
\* ------------------------------------------------------------------------

\* The ids of the output are pairwise distinct and strictly increasing in
\* output order.
IdsIncreasing ==
    \A k1, k2 \in DOMAIN guest_records :
        k1 < k2 =>
            /\ guest_records[k1].id # guest_records[k2].id
            /\ IdValue(guest_records[k1]) < IdValue(guest_records[k2])

\* Each flush is handed the counter value of the flush before it plus the
\* total occupant count of the entry flushed before it.
CounterAdvancesPerFlush ==
    \A j \in DOMAIN flushes :
        j > 1 => flushes[j].start_id =
                    flushes[j - 1].start_id + SumCounts(flushes[j - 1].entry.rooms)

\* Inside the loop the counter never decreases, and it changes only in a step
\* that flushes the open entry, by that entry's total occupant count.
CounterStep ==
    pc = "loop" =>
        /\ guest_id' >= guest_id
        /\ guest_id' # guest_id =>
              /\ Len(flushes') = Len(flushes) + 1
              /\ guest_id' = guest_id + SumCounts(current_entry.rooms)
        /\ (Len(flushes') = Len(flushes) + 1 /\ pc' = "loop") =>
              guest_id' = guest_id + SumCounts(current_entry.rooms)

\* C2: within one pass the ids of the output records are pairwise distinct
\* and strictly increasing in output order; the id counter is never reset or
\* decreased while the loop runs, and from one flush to the next it advances
\* by exactly the total occupant count of the entry flushed.
C2_IdsMonotonic ==
    /\ [](IdsIncreasing /\ CounterAdvancesPerFlush)
    /\ [][CounterStep]_vars

\* Two entries have been flushed and the second one's ids continue the first's.
C2_Witness ==
    /\ pc = "done"
    /\ Len(flushes) >= 2
    /\ flushes[2].start_id >= 2
    /\ Len(guest_records) > flushes[2].pos

\* ------------------------------------------------------------------------
\* C3
\* ------------------------------------------------------------------------

\* C3: the entries flushed so far are, in order, the entries opened so far,
\* each once; the only opened entry not yet flushed is the one still open,
\* and none is left after the end of input; each flush happens at the line
\* that opened the next entry or, for the last entry, at the end of input;
\* the records of an earlier flush precede those of a later one.
C3_FlushedOnceInOrder ==
    /\ \A k \in DOMAIN opened : k > 1 => opened[k - 1] < opened[k]
    /\ Len(flushes) <= Len(opened)
    /\ \A j \in DOMAIN flushes :
          /\ flushes[j].entry_line = opened[j]
          /\ flushes[j].at = IF j < Len(opened) THEN opened[j + 1]
                             ELSE Len(raw_lines) + 1
    /\ Len(opened) - Len(flushes) =
          IF pc = "loop" /\ current_entry # None THEN 1 ELSE 0
    /\ Len(rec_src) = Len(guest_records)
    /\ \A k1, k2 \in DOMAIN rec_src :
          k1 < k2 => rec_src[k1].flush <= rec_src[k2].flush

\* Three entries were opened and all three have been flushed, the last one
\* at the end of input.
C3_Witness ==
    /\ pc = "done"
    /\ Len(opened) = 3
    /\ Len(flushes) = 3
    /\ flushes[3].at = Len(raw_lines) + 1
    /\ \E k \in DOMAIN rec_src : rec_src[k].flush = 3

\* ------------------------------------------------------------------------
\* C4
\* ------------------------------------------------------------------------

\* C4: a GuestRecord whose room was found on a continuation line (a line other
\* than the one that opened its entry) belongs to the entry opened by the
\* nearest accepted primary line before that continuation line, and carries
\* the surname and booking code of that line's identity token and that line's
\* arrival and departure day.
C4_ContinuationAttribution ==
    \A k \in DOMAIN guest_records :
        LET src == rec_src[k]
            f == flushes[src.flush]
        IN src.line # f.entry_line =>
              /\ OpenedBefore(src.line) # {}
              /\ f.entry_line = SetMax(OpenedBefore(src.line))
              /\ LET primary == LineAt(f.entry_line)
                     identity == split(primary)[1]
                 IN /\ guest_records[k].last_name = parse_matchcode(identity)
                    /\ guest_records[k].matchcode = extract_booking_code(identity)
                    /\ guest_records[k].arrival_day =
                          parse_data_line(primary).arrival
                    /\ guest_records[k].departure_day =
                          parse_data_line(primary).departure

\* A record of a continuation-line room exists whose entry was not the first
\* one opened.
C4_Witness ==
    /\ pc = "done"
    /\ \E k \in DOMAIN guest_records :
          /\ rec_src[k].line # flushes[rec_src[k].flush].entry_line
          /\ rec_src[k].flush = 2

\* ------------------------------------------------------------------------
\* C5
\* ------------------------------------------------------------------------

\* The line the loop is at is a continuation line by is_continuation_line
\* and is not one of the skipped lines.
AtContinuationLine == InLoop /\ ~IsSkipped(CurLine) /\ is_continuation_line(CurLine)

\* C5: a continuation line processed while no entry is open is discarded:
\* afterwards no entry is open, no entry has been opened by it, and the
\* output and the id counter are as before.
C5_OrphanContinuationDiscarded ==
    [][(AtContinuationLine /\ current_entry = None) =>
          /\ current_entry' = None
          /\ opened' = opened
          /\ guest_records' = guest_records
          /\ guest_id' = guest_id
          /\ i' = i + 1]_vars

\* ------------------------------------------------------------------------
\* C6
\* ------------------------------------------------------------------------

\* The line the loop is at is not skipped, has at least 5 tokens, a non-empty
\* first token, at least one room match and fewer than two date tokens.
AtShortDatedLine ==
    /\ InLoop
    /\ ~IsSkipped(CurLine)
    /\ Len(split(CurLine)) >= 5
    /\ split(CurLine)[1] # Empty
    /\ findall(CurLine, 1) # << >>
    /\ Len(DateTokens(split(CurLine))) < 2

\* The step installs the line the loop is at as a new entry with empty days.
OpensEntryWithEmptyDays ==
    /\ current_entry' = [matchcode |-> split(CurLine)[1],
                         rooms     |-> parse_rooms(CurLine),
                         arrival   |-> Empty,
                         departure |-> Empty]
    /\ opened' = Append(opened, i)

\* C6 as stated: such a line opens a new entry under its own identity token
\* with both days empty, whether or not an entry is open.
C6_AsClaimed ==
    [][AtShortDatedLine => OpensEntryWithEmptyDays]_vars

\* C6 as amended: such a line opens a new entry under its own identity token
\* with both days empty, unless it has no date token at all and an entry is
\* open; then it is a continuation line: its rooms are appended to the open
\* entry and no entry is opened.
C6_ShortDatedLineAccepted ==
    [][AtShortDatedLine =>
          IF Len(DateTokens(split(CurLine))) = 0 /\ current_entry # None
          THEN /\ opened' = opened
               /\ current_entry' =
                     [current_entry EXCEPT !.rooms = @ \o parse_rooms(CurLine)]
          ELSE OpensEntryWithEmptyDays]_vars

\* A line without date tokens opened the first entry, and a line with one
\* date token then opened the second while the first was open; the open
\* entry has empty days.
C6_Witness ==
    /\ Len(opened) = 2
    /\ Len(DateTokens(split(LineAt(opened[1])))) = 0
    /\ Len(DateTokens(split(LineAt(opened[2])))) = 1
    /\ Len(flushes) = 1
    /\ pc = "loop"
    /\ entry_line = opened[2]
    /\ current_entry.arrival = Empty
    /\ current_entry.departure = Empty

\* ------------------------------------------------------------------------
\* C7
\* ------------------------------------------------------------------------

\* 'SMITH', '101', '102', '15', '18', '1234', 'JOHN/1234'
StrSMITH == <<"S","M","I","T","H">>
Str101 == <<"1","0","1">>
Str102 == <<"1","0","2">>
Str15 == <<"1","5">>
Str18 == <<"1","8">>
Str1234 == <<"1","2","3","4">>
StrJOHN1234 == <<"J","O","H","N","/","1","2","3","4">>

\* The three records of the example with the given booking code.
SmithRecords(booking) ==
    <<[id |-> <<"0","0","0">>, last_name |-> StrSMITH, room_number |-> Str101,
       number_of_guests |-> 2, arrival_day |-> Str15, departure_day |-> Str18,
       matchcode |-> booking],
      [id |-> <<"0","0","1">>, last_name |-> StrSMITH, room_number |-> Str101,
       number_of_guests |-> 2, arrival_day |-> Str15, departure_day |-> Str18,
       matchcode |-> booking],
      [id |-> <<"0","0","2">>, last_name |-> StrSMITH, room_number |-> Str102,
       number_of_guests |-> 1, arrival_day |-> Str15, departure_day |-> Str18,
       matchcode |-> booking]>>

\* C7 as stated: the report of the single line
\* 'SMITH_JOHN/1234 101(2) 102(1) 15.03.24 18.03.24' yields exactly the three
\* records 000..002 (101/2, 101/2, 102/1; days 15 and 18; SMITH) with
\* booking code '1234'.
C7_AsClaimed ==
    (pdf = <<LineSmith>> /\ pc = "done") => guest_records = SmithRecords(Str1234)

\* C7 as amended: the same three records, with booking code 'JOHN/1234'.
C7_SmithExample ==
    (pdf = <<LineSmith>> /\ pc = "done") =>
        guest_records = SmithRecords(StrJOHN1234)

\* The pass over that one-line report has ended with three records.
C7_Witness ==
    /\ pdf = <<LineSmith>>
    /\ pc = "done"
    /\ Len(guest_records) = 3

\* ------------------------------------------------------------------------
\* C8
\* ------------------------------------------------------------------------

\* The positions of character c in s.
Positions(s, c) == {k \in DOMAIN s : s[k] = c}

\* s without its leading and trailing blanks.
Trimmed(s) ==
    LET keep == {k \in DOMAIN s : s[k] \notin WS}
    IN IF keep = {} THEN Empty ELSE SubSeq(s, SetMin(keep), SetMax(keep))

\* The booking code the rule gives for token t.
BookingCodeRule(t) ==
    IF Positions(t, "/") = {} THEN Empty
    ELSE LET s == SetMin(Positions(t, "/"))
             before == {u \in Positions(t, "_") : u < s}
         IN IF before # {}
            THEN Trimmed(SubSeq(t, SetMax(before) + 1, Len(t)))
            ELSE Trimmed(t)

\* 'XXD/2521/1'
StrXXD == <<"X","X","D","/","2","5","2","1","/","1">>

\* C8: the booking code of an identity token is empty if the token has no
\* slash; otherwise it is the trimmed suffix after the last underscore that
\* precedes the first slash, or the trimmed whole token if no underscore
\* precedes the first slash; 'AHMAD_WASEEM_XXD/2521/1' gives 'XXD/2521/1'.
C8_BookingCode ==
    tok_out # None =>
        /\ tok_out.booking_code = BookingCodeRule(tok)
        /\ tok = TokAhmad => tok_out.booking_code = StrXXD

\* A token with an underscore before its first slash and another after it
\* has been decomposed, and its booking code keeps the later underscore.
C8_Witness ==
    /\ tok_out # None
    /\ tok = <<"a", "_", "B", "/", "_">>
    /\ tok_out.booking_code = <<"B", "/", "_">>

\* ------------------------------------------------------------------------
\* C9
\* ------------------------------------------------------------------------

\* The surname the rule gives for token t.
LastNameRule(t) ==
    IF Positions(t, "_") # {}
    THEN upper(SubSeq(t, 1, SetMin(Positions(t, "_")) - 1))
    ELSE IF Positions(t, "/") # {}
    THEN upper(SubSeq(t, 1, SetMin(Positions(t, "/")) - 1))
    ELSE upper(t)

\* C9: last_name is the upper-cased part of the token before its first
\* underscore if it has one, else the upper-cased part before its first
\* slash if it has one, else the upper-cased token; the underscore rule wins
\* even when a slash comes before the first underscore.
C9_LastName ==
    tok_out # None => tok_out.last_name = LastNameRule(tok)

\* A token whose slash comes before its underscore has been decomposed; the
\* surname runs up to the underscore and contains the slash.
C9_Witness ==
    /\ tok_out # None
    /\ tok = <<"a", "/", "B", "_", "a">>
    /\ tok_out.last_name = <<"A", "/", "B">>

\* ------------------------------------------------------------------------
\* C10
\* ------------------------------------------------------------------------

\* The room allocation output record k was expanded from.
AllocationOf(k) == flushes[rec_src[k].flush].entry.rooms[rec_src[k].room]

SameAllocation(k1, k2) ==
    /\ rec_src[k1].flush = rec_src[k2].flush
    /\ rec_src[k1].room = rec_src[k2].room

\* C10: number_of_guests of every record is the occupant count of the one
\* allocation it was expanded from; two records of the same allocation agree
\* on room_number, last_name, arrival_day, departure_day and booking code
\* and differ in id.
C10_PerAllocationFields ==
    /\ DOMAIN rec_src = DOMAIN guest_records
    /\ \A k \in DOMAIN guest_records :
          guest_records[k].number_of_guests = AllocationOf(k)[2]
    /\ \A k1, k2 \in DOMAIN guest_records :
          (k1 # k2 /\ SameAllocation(k1, k2)) =>
              /\ guest_records[k1].room_number = guest_records[k2].room_number
              /\ guest_records[k1].last_name = guest_records[k2].last_name
              /\ guest_records[k1].arrival_day = guest_records[k2].arrival_day
              /\ guest_records[k1].departure_day = guest_records[k2].departure_day
              /\ guest_records[k1].matchcode = guest_records[k2].matchcode
              /\ guest_records[k1].id # guest_records[k2].id

\* Two records of one allocation of two occupants exist, in an entry whose
\* rooms hold more occupants than that.
C10_Witness ==
    /\ pc = "done"
    /\ \E k1, k2 \in DOMAIN guest_records :
          /\ k1 # k2
          /\ SameAllocation(k1, k2)
          /\ guest_records[k1].number_of_guests = 2
          /\ SumCounts(flushes[rec_src[k1].flush].entry.rooms) > 2

\* ------------------------------------------------------------------------
\* Reports of accepted, malformed and continuation lines
\* ------------------------------------------------------------------------

\* 'K/1 101(1) 01.01.24 02.01.24 x'       six tokens, one room, two dates
LineK == <<"K","/","1"," ","1","0","1","(","1",")"," ","0","1",".","0","1",".","2","4"," ","0","2",".","0","1",".","2","4"," ","x">>
\* 'Z/2 101(0) 01.01.24 02.01.24 x'       as LineK, with a count of zero
LineZero == <<"Z","/","2"," ","1","0","1","(","0",")"," ","0","1",".","0","1",".","2","4"," ","0","2",".","0","1",".","2","4"," ","x">>
\* 'A/1 x y 01.01.24 02.01.24'            five tokens, two dates, no room
LineNoRoom == <<"A","/","1"," ","x"," ","y"," ","0","1",".","0","1",".","2","4"," ","0","2",".","0","1",".","2","4">>
\* 'T/3 4(1) 01.02.24 03.04.24 05.06.24'  five tokens, one room, three dates
LineThreeDates == <<"T","/","3"," ","4","(","1",")"," ","0","1",".","0","2",".","2","4"," ","0","3",".","0","4",".","2","4"," ","0","5",".","0","6",".","2","4">>

CasePool ==
    {LineK, LineZero, LineNoRoom, LineThreeDates, LineRooms, LineFourTokens,
     LineDigits}

InitCases ==
    /\ pdf \in SeqsUpTo(CasePool, MaxLines)
    /\ Constructed
    /\ IdleIdentity
    /\ IdleFormat
    /\ IdleWeb

SpecCases == InitCases /\ [][Next]_vars

\* The (room_number, count) pairs of a room sequence whose count is below 1.
EmptyRooms(rooms) == {r \in DOMAIN rooms : rooms[r][2] < 1}

\* C11: every room allocation of the open entry and of every flushed entry
\* has an occupant count of at least 1.
C11_PositiveOccupants ==
    /\ current_entry # None => EmptyRooms(current_entry.rooms) = {}
    /\ \A f \in DOMAIN flushes : EmptyRooms(flushes[f].entry.rooms) = {}

\* ------------------------------------------------------------------------
\* Reports with header, page-marker and summary lines
\* ------------------------------------------------------------------------

\* '  '                               blanks only
LineBlank == <<" "," ">>
\* 'Matchcode 5(1) a b c'             column header, five tokens, one room
LineMatchcode == <<"M","a","t","c","h","c","o","d","e"," ","5","(","1",")"," ","a"," ","b"," ","c">>
\* 'Arrivals 3(1)'                    report title, with a room
LineArrivals == <<"A","r","r","i","v","a","l","s"," ","3","(","1",")">>
\* 'Seite 2(1)'                       page marker, with a room
LineSeite == <<"S","e","i","t","e"," ","2","(","1",")">>
\* 'EHC/5 8(1) x 01.01.24 02.01.24'   five tokens, one room, two dates
LineEHC == <<"E","H","C","/","5"," ","8","(","1",")"," ","x"," ","0","1",".","0","1",".","2","4"," ","0","2",".","0","1",".","2","4">>
\* 'Room Arrival 6(1)'                column header, with a room
LineRoomArrival == <<"R","o","o","m"," ","A","r","r","i","v","a","l"," ","6","(","1",")">>

NoiseLines ==
    {LineBlank, LineMatchcode, LineArrivals, LineSeite, LineEHC,
     LineRoomArrival, LineDigits}

NoisePool == NoiseLines \cup {LineK, LineRooms}

InitNoise ==
    /\ pdf \in SeqsUpTo(NoisePool, MaxLines)
    /\ Constructed
    /\ IdleIdentity
    /\ IdleFormat
    /\ IdleWeb

SpecNoise == InitNoise /\ [][Next]_vars

\* word occurs in line, starting at some position
Occurs(line, word) ==
    \E k \in 1..(Len(line) - Len(word) + 1) :
        SubSeq(line, k, k + Len(word) - 1) = word

\* A noise line: blank; holding 'Matchcode', 'Arrivals' or 'Seite'; starting
\* with 'EHC/' or 'Room Arrival'; or digits only.
NoiseLine(line) ==
    \/ \A k \in DOMAIN line : line[k] = " "
    \/ Occurs(line, StrMatchcode)
    \/ Occurs(line, StrArrivals)
    \/ Occurs(line, StrSeite)
    \/ Len(line) >= 4 /\ SubSeq(line, 1, 4) = StrEHC
    \/ Len(line) >= 12 /\ SubSeq(line, 1, 12) = StrRoomArrival
    \/ line # Empty /\ \A k \in DOMAIN line : line[k] \in Digit

\* The loop is at a noise line.
AtNoiseLine == InLoop /\ NoiseLine(raw_lines[i])

\* C12: a step of the pass taken at a noise line changes neither the open
\* entry (whether one is open, its identity, rooms and days), nor the id
\* counter, nor the output list, and installs no entry; the line is passed.
C12_NoiseLineFrame ==
    [][AtNoiseLine =>
          /\ current_entry' = current_entry
          /\ guest_id' = guest_id
          /\ guest_records' = guest_records
          /\ opened' = opened
          /\ i' = i + 1]_vars

\* an entry is open with one room after 'Arrivals 3(1)' was passed
C12_Witness ==
    /\ pc = "loop"
    /\ i > 2
    /\ raw_lines[i - 1] = LineArrivals
    /\ current_entry # None
    /\ Len(current_entry.rooms) = 1
    /\ opened = <<i - 2>>

\* The line has a room allocation and no date token: the shape of a
\* continuation line.
RoomsOnly(line) ==
    parse_rooms(line) # << >> /\ DateTokens(split(line)) = << >>

\* The line fails a gate of a primary line: fewer than 5 tokens, an empty
\* identity token, or no room allocation.
FailsGate(line) ==
    \/ Len(split(line)) < 5
    \/ split(line)[1] = Empty
    \/ parse_rooms(line) = << >>

\* The loop is at a line that is not noise, not of continuation shape, and
\* fails a gate.
AtMalformedPrimary ==
    /\ InLoop
    /\ ~NoiseLine(raw_lines[i])
    /\ ~RoomsOnly(raw_lines[i])
    /\ FailsGate(raw_lines[i])

\* C13: a step taken at a candidate primary line that fails a gate leaves
\* the open entry, the id counter, the output list and the flushes as they
\* were, installs no entry, and the pass goes on with the next line.
C13_MalformedPrimaryDropped ==
    [][AtMalformedPrimary =>
          /\ current_entry' = current_entry
          /\ room_line' = room_line
          /\ guest_id' = guest_id
          /\ guest_records' = guest_records
          /\ flushes' = flushes
          /\ opened' = opened
          /\ i' = i + 1
          /\ pc' = "loop"]_vars

\* the entry of LineK is still open, unflushed, after a line with no room
\* and a line of four tokens
C13_Witness ==
    /\ pc = "loop"
    /\ i = 4
    /\ raw_lines = <<LineK, LineNoRoom, LineFourTokens>>
    /\ current_entry = parse_data_line(LineK)
    /\ opened = <<1>>
    /\ guest_records = << >>

\* C14: every line that was installed as an entry has at least 5
\* whitespace-separated tokens.
C14_ShortLineNeverOpens ==
    \A k \in DOMAIN opened : Len(split(raw_lines[opened[k]])) >= 5

\* a line of four tokens with a room and two date tokens was passed, first
\* in the report, and no entry is open
C14_Witness ==
    /\ pc = "loop"
    /\ i = 2
    /\ raw_lines[1] = LineFourTokens
    /\ parse_rooms(raw_lines[1]) # << >>
    /\ Len(DateTokens(split(raw_lines[1]))) = 2
    /\ current_entry = None
    /\ opened = << >>

\* t begins DD.MM.YY
DateLike(t) ==
    /\ Len(t) >= 8
    /\ \A k \in {1, 2, 4, 5, 7, 8} : t[k] \in Digit
    /\ t[3] = "." /\ t[6] = "."

\* The date tokens of a line, left to right.
DatesOf(line) == SelectSeq(split(line), DateLike)

\* entry, installed from raw line number n, has the days of the first two
\* date tokens of that line when there are two.
DaysFromFirstTwo(entry, n) ==
    LET d == DatesOf(raw_lines[n])
    IN Len(d) >= 2 =>
          /\ entry.arrival = SubSeq(d[1], 1, 2)
          /\ entry.departure = SubSeq(d[2], 1, 2)

\* C15: the open entry and every flushed entry whose primary line has two
\* or more date tokens has the day of the first as arrival_day and the day
\* of the second as departure_day.
C15_DaysFromFirstTwoDates ==
    /\ current_entry # None => DaysFromFirstTwo(current_entry, entry_line)
    /\ \A f \in DOMAIN flushes :
          DaysFromFirstTwo(flushes[f].entry, flushes[f].entry_line)

\* an entry installed from a line of three date tokens was flushed with the
\* days of the first two
C15_Witness ==
    \E f \in DOMAIN flushes :
       /\ raw_lines[flushes[f].entry_line] = LineThreeDates
       /\ Len(DatesOf(LineThreeDates)) = 3
       /\ flushes[f].entry.arrival = <<"0", "1">>
       /\ flushes[f].entry.departure = <<"0", "3">>
       /\ \E k \in DOMAIN guest_records :
             /\ rec_src[k].flush = f
             /\ guest_records[k].departure_day = <<"0", "3">>

\* '210 T'
Str210T == <<"2","1","0"," ","T">>

\* The loop is at a line of continuation shape while an entry is open.
AtContinuationOfOpenEntry ==
    /\ InLoop
    /\ ~NoiseLine(raw_lines[i])
    /\ RoomsOnly(raw_lines[i])
    /\ current_entry # None

\* C16: a step taken at a continuation line while an entry is open appends
\* the line's room allocations, in order, to the rooms of the entry and
\* leaves its identity token and days, the id counter and the output list
\* unchanged, with the entry still open; rooms [("101",1)] and the line
\* `210 T(2)` give [("101",1),("210 T",2)].
C16_ContinuationAppendsRooms ==
    [][AtContinuationOfOpenEntry =>
          /\ current_entry' # None
          /\ current_entry'.rooms =
                current_entry.rooms \o parse_rooms(raw_lines[i])
          /\ current_entry'.matchcode = current_entry.matchcode
          /\ current_entry'.arrival = current_entry.arrival
          /\ current_entry'.departure = current_entry.departure
          /\ guest_id' = guest_id
          /\ guest_records' = guest_records
          /\ opened' = opened
          /\ (current_entry.rooms = <<<<Str101, 1>>>> /\ raw_lines[i] = LineRooms
                => current_entry'.rooms = <<<<Str101, 1>>, <<Str210T, 2>>>>)]_vars

\* the entry of LineK holds its own room and then the room of `210 T(2)`
C16_Witness ==
    /\ pc = "loop"
    /\ i = 3
    /\ raw_lines[1] = LineK
    /\ raw_lines[2] = LineRooms
    /\ current_entry.matchcode = <<"K", "/", "1">>
    /\ current_entry.rooms = <<<<Str101, 1>>, <<Str210T, 2>>>>
    /\ guest_records = << >>

\* ------------------------------------------------------------------------
\* process() called again on the same PDFParser
\* ------------------------------------------------------------------------

\* The most calls of process() on one parser.
MaxPasses == 2

RerunPool == {LineK, LineRooms, LineDigits}

InitRerun ==
    /\ pdf \in SeqsUpTo(RerunPool, MaxLines)
    /\ Constructed
    /\ IdleIdentity
    /\ IdleFormat
    /\ IdleWeb

\* a further call of process(): extract_text() extends self.raw_lines with
\* the lines of the same PDF, the locals are initialised, and the loop runs
\* over all of self.raw_lines; self.guest_records is as the call before
\* left it
process_again ==
    /\ pc = "done"
    /\ Len(returned) < MaxPasses
    /\ raw_lines' = raw_lines \o pdf
    /\ current_entry' = None
    /\ guest_id' = 0
    /\ i' = 1
    /\ pc' = "loop"
    /\ UNCHANGED <<pdf, guest_records, entry_line, room_line, opened, flushes,
                   rec_src, returned, sideVars>>

NextRerun ==
    \/ process_start
    \/ SkipLine
    \/ ContinuationLine
    \/ PrimaryLine
    \/ DropLine
    \/ EndOfInput
    \/ process_again

SpecRerun == InitRerun /\ [][NextRerun]_vars

\* C17: every call of process() on the same input returned the list the
\* first call returned, and a pass starts from an empty line buffer and an
\* empty record list.
C17_RerunSameResult ==
    /\ \A k \in DOMAIN returned : returned[k] = returned[1]
    /\ pc = "loop" /\ i = 1 => raw_lines = pdf /\ guest_records = << >>

\* ------------------------------------------------------------------------
\* The pass as a whole: every kind of line, and int(count) failing
\* ------------------------------------------------------------------------

\* The most digits int() converts (CPython's default int_max_str_digits,
\* from 3.11 and the security releases of 3.7 to 3.10 on); a longer digit
\* string makes int() raise ValueError.  Builds without the limit convert it.
IntMaxStrDigits == 4300

\* int(digits) raises ValueError
int_raises(s) == Len(s) > IntMaxStrDigits

\* parse_rooms(room_str) raises: the int(count) of one of its matches does
parse_rooms_raises(room_str) ==
    LET matches == findall(room_str, 1)
    IN \E k \in DOMAIN matches : int_raises(matches[k].count)

\* parse_data_line(line) raises: it has the tokens to reach parse_rooms
parse_data_line_raises(line) ==
    Len(split(line)) >= 5 /\ parse_rooms_raises(line)

\* 'L/1 7(00...01) a b c', the count written with IntMaxStrDigits zeros
\* before the 1
LineLongCount ==
    <<"L","/","1"," ","7","(">> \o [k \in 1..IntMaxStrDigits |-> "0"]
        \o <<"1",")"," ","a"," ","b"," ","c">>

LivePool == LinePool \cup CasePool \cup NoisePool \cup {LineLongCount}

\* The longest report of LivePool lines.
MaxLiveLines == 2

InitLive ==
    /\ pdf \in SeqsUpTo(LivePool, MaxLiveLines)
    /\ Constructed
    /\ IdleIdentity
    /\ IdleFormat
    /\ IdleWeb

\* the ValueError of int(count) leaves process() through its caller: the
\* pass ends without a return value
RaiseLine ==
    /\ InLoop
    /\ ~IsSkipped(CurLine)
    /\ IF TakesContinuation(CurLine, current_entry)
       THEN parse_rooms_raises(CurLine)
       ELSE parse_data_line_raises(CurLine)
    /\ pc' = "error"
    /\ UNCHANGED <<pdf, raw_lines, guest_records, current_entry, guest_id, i,
                   entry_line, room_line, opened, flushes, rec_src, returned,
                   sideVars>>

NextLive ==
    \/ process_start
    \/ SkipLine
    \/ ContinuationLine
    \/ PrimaryLine
    \/ DropLine
    \/ RaiseLine
    \/ EndOfInput

\* process() is run to its end: no step of it waits for anything
SpecLive == InitLive /\ [][NextLive]_vars /\ WF_vars(NextLive)

\* C18: the pass is never in an error state, each step of its loop moves to
\* the next line, and when it has ended the loop is past the last line and
\* one list was returned.
C18_PassCompletes ==
    /\ [](pc \in {"new", "loop", "done"})
    /\ [](pc = "done" => i = Len(pdf) + 1 /\ Len(returned) = 1)
    /\ [][pc = "loop" /\ pc' = "loop" => i' = i + 1]_vars

\* ------------------------------------------------------------------------
\* Id formatting as a function of the counter alone
\* ------------------------------------------------------------------------

\* The largest counter value formatted.
MaxCounter == 1100

InitFormat ==
    /\ pdf = << >>
    /\ Constructed
    /\ IdleIdentity
    /\ IdleWeb
    /\ counter \in 0..MaxCounter
    /\ id_out = None

\* id=f"{current_id:03d}" of _create_guest_records, on current_id = counter
FormatId ==
    /\ id_out = None
    /\ id_out' = [id |-> Format03d(counter)]
    /\ UNCHANGED <<parserVars, identityVars, counter, webVars>>

NextFormat == FormatId

SpecFormat == InitFormat /\ [][NextFormat]_vars

\* The fewest decimal digits that write n.
DigitCount(n) ==
    CHOOSE w \in 1..10 : n < 10 ^ w /\ (w = 1 \/ n >= 10 ^ (w - 1))

\* The number that the digit string s writes, most significant digit first.
NumberOf(s) ==
    LET val(c) == CHOOSE d \in 0..9 : DigitChars[d + 1] = c
        RECURSIVE upto(_)
        upto(k) == IF k = 0 THEN 0 ELSE 10 * upto(k - 1) + val(s[k])
    IN upto(Len(s))

\* C20: the id is a string of decimal digits that writes the counter value,
\* of width 3 when the value has at most 3 digits and of the value's own
\* width (4 or more, nothing cut off) otherwise; no other counter value up
\* to MaxCounter that is 1 or 1000 away, or has the same last three digits,
\* gets the same string.
C20_IdIsPaddedDecimal ==
    id_out # None =>
       /\ \A k \in DOMAIN id_out.id : id_out.id[k] \in Digit
       /\ NumberOf(id_out.id) = counter
       /\ Len(id_out.id) = IF DigitCount(counter) < 3 THEN 3
                           ELSE DigitCount(counter)
       /\ \A m \in {counter + 1, counter + 1000, counter % 1000} :
             m # counter => Format03d(m) # id_out.id

\* the counter value 1000 was formatted as '1000'
C20_Witness ==
    /\ counter = 1000
    /\ id_out # None
    /\ id_out.id = <<"1", "0", "0", "0">>

\* ------------------------------------------------------------------------
\* The web application (streamlit_app.py)
\* ------------------------------------------------------------------------

\* One pass of the loop body of process() as a function: the locals
\* current_entry and guest_id and the records so far, after `line`
ProcessLine(st, line) ==
    LET parsed == parse_data_line(line)
    IN IF IsSkipped(line) THEN st
       ELSE IF TakesContinuation(line, st.entry)
       THEN [st EXCEPT !.entry.rooms = @ \o parse_rooms(line)]
       ELSE IF ~Accepted(parsed) THEN st
       ELSE IF HasRooms(st.entry)
       THEN [entry |-> parsed,
             gid   |-> AdvanceId(st.gid, st.entry),
             recs  |-> st.recs \o create_guest_records(st.entry, st.gid)]
       ELSE [st EXCEPT !.entry = parsed]

\* the loop of process() from line k on, and the flush after it
RECURSIVE ProcessFrom(_, _, _)
ProcessFrom(lines, k, st) ==
    IF k <= Len(lines)
    THEN ProcessFrom(lines, k + 1, ProcessLine(st, strip(lines[k])))
    ELSE IF HasRooms(st.entry)
    THEN st.recs \o create_guest_records(st.entry, st.gid)
    ELSE st.recs

\* PDFParser(path).process() on a new parser, as a function of the text
\* lines of the PDF
process(lines) ==
    ProcessFrom(lines, 1, [entry |-> None, gid |-> 0, recs |-> << >>])

\* f"{room_number}|{last_name}|{arrival_day}|{departure_day}"
room_key(guest) ==
    guest.room_number \o <<"|">> \o guest.last_name \o <<"|">>
        \o guest.arrival_day \o <<"|">> \o guest.departure_day

\* the guests of a list that parse_pdf groups: number_of_guests > 1
MultiGuests(guests) == SelectSeq(guests, LAMBDA g : g.number_of_guests > 1)

\* room_groups of parse_pdf: per room key, the fields of the first guest
\* that has the key and all guests that have it, in list order
room_groups(guests) ==
    LET multi == MultiGuests(guests)
        keys == {room_key(multi[k]) : k \in DOMAIN multi}
    IN [key \in keys |->
          LET members == SelectSeq(multi, LAMBDA g : room_key(g) = key)
          IN [room_number      |-> members[1].room_number,
              last_name        |-> members[1].last_name,
              arrival_day      |-> members[1].arrival_day,
              departure_day    |-> members[1].departure_day,
              number_of_guests |-> members[1].number_of_guests,
              guest_records    |-> members]]

\* st.session_state after init_session_state() on an empty state
DefaultSessionState ==
    [temp_files          |-> << >>,
     output_docx         |-> None,
     guests              |-> None,
     processing_complete |-> FALSE,
     pending_review      |-> FALSE,
     nametag_counts      |-> << >>,
     multi_guest_rooms   |-> << >>]

\* init_session_state(): every key that is missing gets its default
init_session_state(ss) ==
    [key \in DOMAIN DefaultSessionState \cup DOMAIN ss |->
        IF key \in DOMAIN ss THEN ss[key] ELSE DefaultSessionState[key]]

\* the elements of a list
Range(list) == {list[k] : k \in DOMAIN list}

\* cleanup_temp_files(), its effect on the session state: each of six keys,
\* where present, is set to its empty value
cleanup_temp_files(ss) ==
    [key \in DOMAIN ss |->
        IF key \in {"temp_files", "nametag_counts", "multi_guest_rooms"}
        THEN << >>
        ELSE IF key \in {"output_docx", "guests"} THEN None
        ELSE IF key = "pending_review" THEN FALSE
        ELSE ss[key]]

\* cleanup_temp_files(), its effect on the disk: os.remove of every path in
\* temp_files
RemoveTempFiles(ss, files) ==
    IF "temp_files" \in DOMAIN ss
    THEN {f \in files : f.path \notin Range(ss.temp_files)}
    ELSE files

\* tempfile.NamedTemporaryFile(delete=False): a name no file on disk has
NamedTemporaryFile(files) ==
    CHOOSE path \in 1..(Cardinality(files) + 1) :
        \A f \in files : f.path # path

\* parse_pdf(uploaded_file), its effect on the session state, with `guests`
\* the list parser.process() returned; the temporary copy of the upload is
\* created and removed within the call
parse_pdf(ss, guests) ==
    LET groups == room_groups(guests)
    IN IF guests = << >> THEN ss
       ELSE IF DOMAIN groups = {}
       THEN [ss EXCEPT !.guests = [list |-> guests],
                       !.pending_review = FALSE]
       ELSE [ss EXCEPT
                !.guests = [list |-> guests],
                !.multi_guest_rooms = groups,
                !.nametag_counts =
                    [key \in DOMAIN @ \cup DOMAIN groups |->
                        IF key \in DOMAIN groups
                        THEN groups[key].number_of_guests
                        ELSE @[key]],
                !.pending_review = TRUE]

\* room_guests[:count]
Take(list, count) ==
    SubSeq(list, 1, IF count < Len(list) THEN count ELSE Len(list))

\* One pass of the loop body of generate_docx: final_guests and
\* processed_rooms after `guest`
FinalGuestsStep(ss, st, guest) ==
    LET key == room_key(guest)
        count == IF key \in DOMAIN ss.nametag_counts
                 THEN ss.nametag_counts[key]
                 ELSE guest.number_of_guests
        room_guests == IF key \in DOMAIN ss.multi_guest_rooms
                       THEN ss.multi_guest_rooms[key].guest_records
                       ELSE <<guest>>
    IN IF guest.number_of_guests = 1
       THEN [st EXCEPT !.final = Append(@, guest)]
       ELSE IF key \in st.processed_rooms THEN st
       ELSE [final           |-> st.final \o Take(room_guests, count),
             processed_rooms |-> st.processed_rooms \cup {key}]

\* the loop of generate_docx building final_guests, from guest k on
RECURSIVE FinalGuestsFrom(_, _, _, _)
FinalGuestsFrom(ss, guests, k, st) ==
    IF k > Len(guests) THEN st.final
    ELSE FinalGuestsFrom(ss, guests, k + 1,
                         FinalGuestsStep(ss, st, guests[k]))

\* generate_docx(guests): the list handed to NametageGenerator, and the
\* session state once the document is written to the file at `path`
generate_docx(ss, guests, path) ==
    LET final == FinalGuestsFrom(ss, guests, 1,
                     [final |-> << >>, processed_rooms |-> {}])
    IN [final |-> final,
        ss    |-> [ss EXCEPT !.temp_files = Append(@, path),
                             !.output_docx = [docx |-> final],
                             !.processing_complete = TRUE,
                             !.pending_review = FALSE]]

\* The most sessions ended with the End Session button.
MaxSessions == 2

WebPool == {LineK, LineSmith, LineRooms, LineDigits}

\* the first run of main() in a browser session: init_session_state(); the
\* uploaded PDF has the text lines pdf
InitWeb ==
    /\ pdf \in SeqsUpTo(WebPool, MaxLines)
    /\ Constructed
    /\ IdleIdentity
    /\ IdleFormat
    /\ session_state = init_session_state(<< >>)
    /\ disk = {}
    /\ session = "live"
    /\ sess = 0
    /\ final_guests = None

\* `if st.session_state.guests`
HasGuests(ss) == ss.guests # None /\ ss.guests.list # << >>

\* `st.session_state.pending_review and st.session_state.multi_guest_rooms`
InReview(ss) == ss.pending_review /\ DOMAIN ss.multi_guest_rooms # {}

\* generate_docx(st.session_state.guests) with its temporary file
RunGenerateDocx(ss) ==
    LET path == NamedTemporaryFile(disk)
        out == generate_docx(ss, ss.guests.list, path)
    IN /\ session_state' = out.ss
       /\ disk' = disk \cup {[path |-> path, session |-> sess]}
       /\ final_guests' = [list |-> out.final]

\* the Parse PDF button, and the rerun after a successful parse, which
\* generates the document at once when no room needs review
WebParsePdf ==
    /\ session = "live"
    /\ ~HasGuests(session_state)
    /\ ~session_state.pending_review
    /\ \E parsed \in {parse_pdf(session_state, process(pdf))} :
          IF /\ HasGuests(parsed)
             /\ ~parsed.pending_review
             /\ ~parsed.processing_complete
          THEN RunGenerateDocx(parsed)
          ELSE /\ session_state' = parsed
               /\ UNCHANGED <<disk, final_guests>>
    /\ UNCHANGED <<parserVars, identityVars, formatVars, session, sess>>

\* a number_input of the review section is changed
WebSetCount ==
    /\ session = "live"
    /\ InReview(session_state)
    /\ \E key \in DOMAIN session_state.multi_guest_rooms :
          \E count \in 1..session_state.multi_guest_rooms[key].number_of_guests :
             session_state' =
                [session_state EXCEPT !.nametag_counts =
                    [k \in DOMAIN @ \cup {key} |->
                        IF k = key THEN count ELSE @[k]]]
    /\ UNCHANGED <<parserVars, identityVars, formatVars, disk, session, sess,
                   final_guests>>

\* the Generate Nametags button of the review section
WebGenerate ==
    /\ session = "live"
    /\ InReview(session_state)
    /\ RunGenerateDocx(session_state)
    /\ UNCHANGED <<parserVars, identityVars, formatVars, session, sess>>

\* the End Session button: end_session(), then st.rerun() starts main()
\* on the cleared state
WebEndSession ==
    /\ session = "live"
    /\ sess < MaxSessions
    /\ disk' = RemoveTempFiles(session_state, disk)
    /\ session_state' = init_session_state(<< >>)
    /\ sess' = sess + 1
    /\ UNCHANGED <<parserVars, identityVars, formatVars, session,
                   final_guests>>

\* the browser tab is closed: no code of the application runs; the
\* framework drops the session with its state
WebCloseBrowser ==
    /\ session = "live"
    /\ session' = "closed"
    /\ session_state' = << >>
    /\ UNCHANGED <<parserVars, identityVars, formatVars, disk, sess,
                   final_guests>>

NextWeb ==
    \/ WebParsePdf
    \/ WebSetCount
    \/ WebGenerate
    \/ WebEndSession
    \/ WebCloseBrowser

SpecWeb == InitWeb /\ [][NextWeb]_vars

\* The temporary files on disk that were created in a session that ended.
FilesOfEndedSessions ==
    {f \in disk : f.session < sess \/ session = "closed"}

\* The session state holds guest data, nametag counts or a document.
HoldsGuestData(ss) ==
    \/ "guests" \in DOMAIN ss /\ ss.guests # None
    \/ "output_docx" \in DOMAIN ss /\ ss.output_docx # None
    \/ "nametag_counts" \in DOMAIN ss /\ DOMAIN ss.nametag_counts # {}
    \/ "multi_guest_rooms" \in DOMAIN ss /\ DOMAIN ss.multi_guest_rooms # {}

\* C19: no temporary file of a session that has ended (by End Session or
\* by closing the browser) is on disk, and the step that ends a session
\* leaves no guest data, nametag counts or document in the session state.
C19_NothingSurvivesSession ==
    /\ [](FilesOfEndedSessions = {})
    /\ [][sess' # sess \/ session' = "closed"
            => ~HoldsGuestData(session_state')]_vars

\* ------------------------------------------------------------------------
\* C21
\* ------------------------------------------------------------------------

\* An entry is open: the loop runs and current_entry is set.
EntryOpen == pc = "loop" /\ current_entry # None

\* The step calls _create_guest_records on the entry that was open.
FlushesOpenEntry ==
    /\ Len(flushes') = Len(flushes) + 1
    /\ flushes'[Len(flushes')].entry = current_entry
    /\ flushes'[Len(flushes')].entry_line = entry_line

\* The step ends the open entry: another line's entry takes its place, or
\* the loop is left.
EndsOpenEntry == entry_line' # entry_line \/ pc' # "loop"

\* A step taken while an entry is open: a line installed as the new entry
\* flushes the open one, the open entry is ended only by a step that flushes
\* it, and otherwise its rooms are kept or extended at the end.
OpenEntryStep ==
    EntryOpen =>
        /\ Len(opened') > Len(opened) => FlushesOpenEntry
        /\ EndsOpenEntry => FlushesOpenEntry
        /\ ~EndsOpenEntry =>
              /\ current_entry' # None
              /\ Len(current_entry'.rooms) >= Len(current_entry.rooms)
              /\ SubSeq(current_entry'.rooms, 1, Len(current_entry.rooms))
                    = current_entry.rooms

\* C21: whenever an entry is open during a pass its room sequence is
\* non-empty; a line accepted as a primary line while an entry is open
\* flushes that entry, and no open entry is replaced or left behind at the
\* end of input without having been flushed.
C21_OpenEntryHasRooms ==
    /\ [](EntryOpen => current_entry.rooms # << >>)
    /\ [](\A j \in DOMAIN flushes : flushes[j].entry.rooms # << >>)
    /\ [][OpenEntryStep]_vars

\* The entry of LineK was open over a continuation line, was flushed with both of its rooms by the next primary line, and
\* that line's entry was flushed at the end of input.
C21_Witness ==
    /\ pc = "done"
    /\ Len(raw_lines) = 3
    /\ raw_lines[1] = LineK
    /\ raw_lines[2] = LineRooms
    /\ raw_lines[3] = LineThreeDates
    /\ Len(flushes) = 2
    /\ flushes[1].entry.rooms = <<<<Str101, 1>>, <<Str210T, 2>>>>
    /\ flushes[1].at = 3
    /\ flushes[2].at = 4

\* ------------------------------------------------------------------------
\* C22
\* ------------------------------------------------------------------------

Str000 == <<"0","0","0">>
Str002 == <<"0","0","2">>

\* C22: in a pass on a freshly constructed parser, between the steps of the
\* loop the id counter equals the number of GuestRecords in the output
\* list; the k-th output record (counted from 0) has the id of value k,
\* written by the id format, and the first record has the id 000.
C22_CounterIsOutputLength ==
    /\ pc = "loop" => guest_id = Len(guest_records)
    /\ \A k \in DOMAIN guest_records :
          /\ IdValue(guest_records[k]) = k - 1
          /\ guest_records[k].id = Format03d(k - 1)
    /\ guest_records # << >> => guest_records[1].id = Str000

\* The loop stands after the second line, the first entry's three records
\* 000..002 are in the output, the counter is 3 and the second entry is open.
C22_Witness ==
    /\ pc = "loop"
    /\ i = 3
    /\ current_entry # None
    /\ Len(flushes) = 1
    /\ guest_id = 3
    /\ Len(guest_records) = 3
    /\ guest_records[1].id = Str000
    /\ guest_records[3].id = Str002

\* ------------------------------------------------------------------------
\* C23
\* ------------------------------------------------------------------------

\* Every per-room nametag count is the default parse_pdf gave it.
DefaultCounts(ss) ==
    \A key \in DOMAIN ss.multi_guest_rooms :
        /\ key \in DOMAIN ss.nametag_counts
        /\ ss.nametag_counts[key] = ss.multi_guest_rooms[key].number_of_guests

\* How many times `guest` occurs in `list`.
Occurrences(list, guest) == Cardinality({k \in DOMAIN list : list[k] = guest})

\* The session holds a generated document.
DocumentGenerated ==
    /\ session = "live"
    /\ session_state.processing_complete
    /\ session_state.output_docx # None
    /\ session_state.guests # None

\* C23: when the document was generated with every per-room nametag count
\* at its default, the list handed to the document generator has the length
\* of the parsed list and holds every parsed GuestRecord exactly once, also
\* when two room allocations share one room key.
C23_DefaultCountsKeepEveryGuest ==
    (DocumentGenerated /\ DefaultCounts(session_state)) =>
        LET parsed == session_state.guests.list
            final == session_state.output_docx.docx
        IN /\ Len(final) = Len(parsed)
           /\ \A k \in DOMAIN parsed : Occurrences(final, parsed[k]) = 1

====
